---- MODULE Spec2Model ----
(***************************************************************************)
(* A model of argusclient/client.py: the session's credential state, the   *)
(* retry_auth / auto_auth wrappers around ArgusServiceClient._request, the *)
(* transport's classification of a response (check_success), and the       *)
(* lazily filled collections of the model service clients, those of an     *)
(* alert's triggers and notifications included.                            *)
(*                                                                         *)
(* One top-level call of the library is in progress at a time (the library *)
(* is synchronous).  Every transport call is one step: the server's answer *)
(* is chosen freely among the answers a server can give, and the step      *)
(* carries the code up to the next transport call or to the return/raise   *)
(* of the top-level call.  `log` records the transport calls of the        *)
(* _request in hand (of a wrapped call: the request and how it was         *)
(* answered, not the payload), `start` the credentials it started with,    *)
(* `changed` whether the top-level call has changed the collection.  A     *)
(* handler that sends several requests keeps its position and its          *)
(* arguments in `frame`.                                                   *)
(***************************************************************************)
EXTENDS Naturals, Sequences, FiniteSets, TLC

VARIABLES
    cred,           \* ArgusServiceClient.user/password/refreshToken/accessToken
    pc,             \* position: new (no session yet), idle, request (before a further _request), refresh, login, call
    try_cnt,        \* with_retry's try_cnt
    op,             \* the top-level call in progress (or the last one)
    ret,            \* how the last top-level call ended: exception and value
    start,          \* cred at the beginning of the _request in hand
    log,            \* transport calls made by the _request in hand, in order
    kind,           \* which service client the collection belongs to
    coll,           \* BaseModelServiceClient._coll
    coll_by_name,   \* UsersServiceClient._coll_by_name
    retrieved_all,  \* BaseModelServiceClient._retrieved_all
    owner_ids,      \* the ids in alert.triggerIds / alert.notificationIds of the owning alert
    frame,          \* the arguments of the top-level call and its position
    changed         \* the top-level call has changed _coll

vars == <<cred, pc, try_cnt, op, ret, start, log, kind, coll, coll_by_name,
          retrieved_all, owner_ids, frame, changed>>

----------------------------------------------------------------------------
(* Bounds of the model. *)

\* Access/refresh tokens the server can mint are 1..MaxTok.
MaxTok == 2
\* Object ids are 1..MaxId.
MaxId == 2
\* A bulk response lists at most MaxLen objects.
MaxLen == 2

----------------------------------------------------------------------------
(* Values. *)

\* Python's None (and any falsy id or token).
None == 0

Tokens == 1 .. MaxTok
TokOpt == Tokens \cup {None}
Ids == 1 .. MaxId

\* A password is a string; "" is the absent (falsy) one.
Passwords == {"", "password"}
userName == "test.user"

\* httplib status codes read by check_success, and one "other" status.
OK == 200
NOT_FOUND == 404
UNAUTHORIZED == 401
SERVER_ERROR == 500

\* The exception classes of client.py ("none": the call returned).
NoException == "none"
ArgusException == "ArgusException"
ArgusAuthException == "ArgusAuthException"
ArgusObjectNotFoundException == "ArgusObjectNotFoundException"
KeyError == "KeyError"
AttributeError == "AttributeError"
TypeError == "TypeError"
ValueError == "ValueError"

\* with_retry gives up once try_cnt has reached this.
RetryLimit == 2

----------------------------------------------------------------------------
(* The transport: responses and their classification. *)

\* A response body: empty text, text that is no JSON document, a JSON mapping
\* with a "status" field, or the payload the endpoint answers with.
EmptyBody == [tag |-> "empty", text |-> None]
TextBody == [tag |-> "text", text |-> None]
StatusBody(s) == [tag |-> "status", text |-> s]
Payload(v) == [tag |-> "payload", text |-> v]

Response(code, body) == [status_code |-> code, body |-> body]

\* resp.json(cls=decCls) of a body that is a JSON document: the mapping with
\* its "status" field, or the payload.
json(body) == IF body.tag = "status" THEN [status |-> body.text] ELSE body.text

\* (mutant) every status but 200 and 401 is the generic failure.
check_success_NoNotFound(resp) ==
    IF resp.status_code = OK
    THEN IF resp.body.tag = "empty"
         THEN [exc |-> NoException, res |-> None]
         ELSE IF resp.body.tag = "text"
              THEN [exc |-> ValueError, res |-> None]
              ELSE IF resp.body.tag = "status" /\ resp.body.text # 200
                   THEN [exc |-> ArgusException, res |-> None]
                   ELSE [exc |-> NoException, res |-> json(resp.body)]
    ELSE IF resp.status_code = UNAUTHORIZED
         THEN [exc |-> ArgusAuthException, res |-> None]
         ELSE [exc |-> ArgusException, res |-> None]

\* check_success: the result of a response, or the exception it raises
\* (ValueError is what resp.json raises on text that is no JSON document).
check_success(resp) ==
    IF resp.status_code = OK
    THEN IF resp.body.tag = "empty"
         THEN [exc |-> NoException, res |-> None]
         ELSE IF resp.body.tag = "text"
              THEN [exc |-> ValueError, res |-> None]
              ELSE IF resp.body.tag = "status" /\ resp.body.text # 200
                   THEN [exc |-> ArgusException, res |-> None]
                   ELSE [exc |-> NoException, res |-> json(resp.body)]
    ELSE IF resp.status_code = NOT_FOUND
         THEN [exc |-> ArgusObjectNotFoundException, res |-> None]
         ELSE IF resp.status_code = UNAUTHORIZED
              THEN [exc |-> ArgusAuthException, res |-> None]
              ELSE [exc |-> ArgusException, res |-> None]

\* What a server can answer when it does not serve the request.
Failures ==
    { Response(UNAUTHORIZED, EmptyBody), Response(NOT_FOUND, EmptyBody),
      Response(SERVER_ERROR, EmptyBody), Response(OK, StatusBody(400)) }

\* The answers to v2/auth/token/refresh and to v2/auth/login.
RefreshResponses ==
    { Response(OK, Payload([accessToken |-> a])) : a \in Tokens } \cup Failures

LoginResponses ==
    { Response(OK, Payload([refreshToken |-> r, accessToken |-> a])) :
        r \in Tokens, a \in Tokens } \cup Failures

\* One entry of `log`: the call, the bearer token _request_no_auth attached
\* (None: no Authorization header), and what check_success made of the answer.
Call(k, method, path, bearer, r) ==
    [kind |-> k, method |-> method, path |-> path, bearer |-> bearer,
     exc |-> r.exc, res |-> r.res]

\* _request_no_auth attaches the accessToken when there is one.
Bearer(c) == c.accessToken

----------------------------------------------------------------------------
(* The session: retry_auth and auto_auth around _request. *)

Credentials == [user : {userName}, password : Passwords,
                refreshToken : TokOpt, accessToken : TokOpt]

\* ArgusServiceClient.__init__ accepts these.
ValidSessions ==
    { c \in Credentials :
        c.password # "" \/ c.refreshToken # None \/ c.accessToken # None }

NoRet == [exc |-> "pending", val |-> None]
Returned(v) == [exc |-> NoException, val |-> v]
Raised(exc) == [exc |-> exc, val |-> None]

\* (mutant) the accessToken is not looked at before the login.
LoginEntry_IgnoresToken(c) ==
    IF c.password # "" THEN "login" ELSE "call"

\* with_auth_token, line 832: a login comes next iff there is still no
\* accessToken and there is a password; otherwise the wrapped call.
LoginEntry(c) ==
    IF c.accessToken = None /\ c.password # "" THEN "login" ELSE "call"

\* (mutant) the refreshToken is never used.
AuthEntry_NoRefresh(c) == LoginEntry(c)

\* with_auth_token, line 821: a refresh comes first iff there is no
\* accessToken and there is a refreshToken.
AuthEntry(c) ==
    IF c.accessToken = None /\ c.refreshToken # None THEN "refresh" ELSE LoginEntry(c)

\* (mutant) try_cnt > 2 instead of try_cnt >= 2: a third attempt.
with_retry_OffByOne(exc, c) ==
    IF exc = ArgusAuthException /\ try_cnt <= RetryLimit
    THEN /\ try_cnt' = try_cnt + 1
         /\ pc' = AuthEntry(c)
         /\ ret' = ret
    ELSE /\ try_cnt' = try_cnt
         /\ pc' = "idle"
         /\ ret' = Raised(exc)

\* (mutant) no second attempt.
with_retry_NoRetry(exc, c) ==
    /\ try_cnt' = try_cnt
    /\ pc' = "idle"
    /\ ret' = Raised(exc)

\* (mutant) except ArgusException: every failure is tried again.
with_retry_RetriesAll(exc, c) ==
    IF try_cnt < RetryLimit
    THEN /\ try_cnt' = try_cnt + 1
         /\ pc' = AuthEntry(c)
         /\ ret' = ret
    ELSE /\ try_cnt' = try_cnt
         /\ pc' = "idle"
         /\ ret' = Raised(exc)

\* with_retry: exception exc leaves with_auth_token, the credentials being c.
\* An ArgusAuthException starts the second attempt; anything else, and the
\* second ArgusAuthException, is raised to the caller.
with_retry(exc, c) ==
    IF exc = ArgusAuthException /\ try_cnt < RetryLimit
    THEN /\ try_cnt' = try_cnt + 1
         /\ pc' = AuthEntry(c)
         /\ ret' = ret
    ELSE /\ try_cnt' = try_cnt
         /\ pc' = "idle"
         /\ ret' = Raised(exc)

\* (mutant) both tokens are dropped.
OnAuthFailure_ClearsBoth(c) == [c EXCEPT !.accessToken = None, !.refreshToken = None]

\* The credentials after the server refused the wrapped call (line 842).
OnAuthFailure(c) == [c EXCEPT !.accessToken = None]

\* The credentials after a successful refresh (line 826) and login (line 837).
OnRefresh(c, res) == [c EXCEPT !.accessToken = res.accessToken]
\* (mutant) the refreshToken of the login is not kept.
OnLogin_DropsRefresh(c, res) == [c EXCEPT !.accessToken = res.accessToken]

OnLogin(c, res) ==
    [c EXCEPT !.refreshToken = res.refreshToken, !.accessToken = res.accessToken]

\* The credentials a login call is made with (line 833).
BeforeLogin(c) == [c EXCEPT !.refreshToken = None]

\* _request: a top-level call o enters with_retry / with_auth_token.
_request(o) ==
    /\ op' = o
    /\ start' = cred
    /\ log' = <<>>
    /\ try_cnt' = 1
    /\ pc' = AuthEntry(cred)
    /\ ret' = NoRet

\* with_auth_token, lines 821-831: the refresh call.
with_auth_token_refresh ==
    /\ pc = "refresh"
    /\ \E resp \in RefreshResponses :
         LET r == check_success(resp) IN
         /\ log' = Append(log, Call("refresh", "post", "v2/auth/token/refresh", Bearer(cred), r))
         /\ IF r.exc = NoException
            THEN /\ cred' = OnRefresh(cred, r.res)
                 /\ pc' = LoginEntry(cred')
                 /\ UNCHANGED <<try_cnt, ret>>
            ELSE IF r.exc = ArgusAuthException /\ cred.password # ""
                 THEN /\ cred' = cred
                      /\ pc' = LoginEntry(cred)
                      /\ UNCHANGED <<try_cnt, ret>>
                 ELSE /\ cred' = cred
                      /\ with_retry(r.exc, cred)
    /\ UNCHANGED <<op, start, kind, coll, coll_by_name, retrieved_all,
                   owner_ids, frame, changed>>

\* with_auth_token, lines 832-837: the login call.
with_auth_token_login ==
    /\ pc = "login"
    /\ \E resp \in LoginResponses :
         LET r == check_success(resp)
             c == BeforeLogin(cred) IN
         /\ log' = Append(log, Call("login", "post", "v2/auth/login", Bearer(c), r))
         /\ IF r.exc = NoException
            THEN /\ cred' = OnLogin(c, r.res)
                 /\ pc' = "call"
                 /\ UNCHANGED <<try_cnt, ret>>
            ELSE /\ cred' = c
                 /\ with_retry(r.exc, c)
    /\ UNCHANGED <<op, start, kind, coll, coll_by_name, retrieved_all,
                   owner_ids, frame, changed>>

----------------------------------------------------------------------------
(* The collections of the model service clients. *)

\* The service clients of the session: NamespacesServiceClient (bulk fetch
\* only), DashboardsServiceClient and AlertsServiceClient (bulk fetch and
\* per-id fetch), UsersServiceClient (per-id and per-name fetch, no bulk
\* path).
Kinds == {"namespaces", "dashboards", "users", "alerts"}

\* The service clients an alert owns: AlertTriggersServiceClient and
\* AlertNotificationsServiceClient.
NestedKinds == {"triggers", "notifications"}

\* The payload of an object besides its id (a user's userName, a trigger's
\* name).
Names == {"a", "b"}
Objects == [id : Ids, name : Names]

\* The client reads nothing of an alert's payload: alerts have one.
Alerts == { x \in Objects : x.name = "a" }

ObjectsOf(k) == IF k = "alerts" THEN Alerts ELSE Objects

\* get_all_req_opts.get(REQ_PATH) of each client ("": none).
BulkPath(k) ==
    CASE k = "namespaces" -> "namespace"
      [] k = "dashboards" -> "dashboards"
      [] k = "alerts" -> "alerts/"
      [] k = "triggers" -> "alerts/%s/triggers"
      [] k = "notifications" -> "alerts/%s/notifications"
      [] OTHER -> ""

\* id_path of the updatable clients ("": not a BaseUpdatableModelServiceClient).
IdPath(k) ==
    CASE k = "dashboards" -> "dashboards/%s"
      [] k = "alerts" -> "alerts/%s"
      [] k = "triggers" -> "alerts/%s/triggers/%s"
      [] k = "notifications" -> "alerts/%s/notifications/%s"
      [] OTHER -> ""

\* The path add posts to.
AddPath(k) ==
    CASE k = "namespaces" -> "namespace"
      [] k = "dashboards" -> "dashboards"
      [] k = "alerts" -> "alerts"
      [] k = "triggers" -> "alerts/%s/triggers"
      [] k = "notifications" -> "alerts/%s/notifications"
      [] OTHER -> ""

\* Lists of at most n objects: what a bulk fetch answers.
RECURSIVE Lists(_)
Lists(n) ==
    IF n = 0 THEN {<<>>}
    ELSE Lists(n - 1) \cup
         { Append(l, o) : l \in { m \in Lists(n - 1) : Len(m) = n - 1 }, o \in Objects }

\* What the server lists for a client: objects of its type, each id once.
ListsOf(k) ==
    { l \in Lists(MaxLen) :
        /\ \A i \in DOMAIN l : l[i] \in ObjectsOf(k)
        /\ \A i, j \in DOMAIN l : l[i].id = l[j].id => i = j }

\* What the alert's own add reads of the triggers (notifications) a post to
\* alerts/%s/triggers answers with: their names, and whether their alertId
\* is the id of the alert in hand (owner_id == argus_id, the setter's check).
Owned == [name : Names, owned : BOOLEAN]

RECURSIVE OwnedLists(_)
OwnedLists(n) ==
    IF n = 0 THEN {<<>>}
    ELSE OwnedLists(n - 1) \cup
         { Append(l, o) : l \in { m \in OwnedLists(n - 1) : Len(m) = n - 1 }, o \in Owned }

\* What alert.triggers / alert.notifications is: the nested service client
\* that _fill puts there, or the plain list the trigger / notification
\* setter of model.Alert puts there.
ServiceClient == "ServiceClient"
PlainList == "list"

\* AlertsServiceClient._fill gives the alert its two nested clients; the
\* other clients keep BaseModelServiceClient._fill, the identity.
_fill(k, obj) ==
    IF k = "alerts"
    THEN [id |-> obj.id, name |-> obj.name,
          triggers |-> ServiceClient, notifications |-> ServiceClient]
    ELSE obj

\* dict((obj.argus_id, obj) for obj in list): the last object of an id wins.
Last(list, k) ==
    list[CHOOSE i \in DOMAIN list :
            /\ list[i].id = k
            /\ \A j \in DOMAIN list : list[j].id = k => j <= i]

Dict(list) == [k \in { list[i].id : i \in DOMAIN list } |-> Last(list, k)]

\* [self._fill(obj) for obj in list]
Filled(k, list) == [i \in DOMAIN list |-> _fill(k, list[i])]

\* [t.argus_id for t in list], as the set of its elements: the id lists of
\* an alert are read as sets, their order is not modelled.
IdsOf(list) == { list[i].id : i \in DOMAIN list }

\* d[k] = v and del d[k] on a dict.
Put(d, k, v) == [x \in DOMAIN d \cup {k} |-> IF x = k THEN v ELSE d[x]]

\* (mutant) del leaves the entry where it is.
Del_Keep(d, k) == d

Del(d, k) == [x \in DOMAIN d \ {k} |-> d[x]]

EmptyDict == [k \in {} |-> None]

\* What each collection accessor returns from the local collection.
View(m, key, d) ==
    CASE m = "items" -> { <<k, d[k]>> : k \in DOMAIN d }
      [] m = "keys" -> { <<k, d[k]>> : k \in DOMAIN d }
      [] m = "values" -> { d[k] : k \in DOMAIN d }
      [] m = "__iter__" -> DOMAIN d
      [] m = "__len__" -> Cardinality(DOMAIN d)
      [] m = "__contains__" -> key \in DOMAIN d

Accessors == {"items", "keys", "values", "__iter__", "__len__", "__contains__"}

\* Those of them that NextAlert has as well.
WholeAccess == {"items", "values", "__len__"}

\* The object a caller hands to add / update: a model object of the client's
\* type, with or without an id; a model object of another type (a Metric),
\* whose id only NamespacesServiceClient.update gets to read; or something
\* that is no model object at all (dict(), as the tests pass).  Only a
\* trigger's or notification's name is read by the client (add looks the
\* new object up by it).
BadObject == [type |-> "dict", id |-> None, name |-> "a"]
NoObject == [type |-> "-", id |-> None, name |-> "-"]
ArgObjects(k) ==
    {BadObject}
    \cup [type : {k}, id : Ids \cup {None}, name : {"a"}]
    \cup [type : {"Metric"}, id : IF k = "namespaces" THEN Ids \cup {None} ELSE {None},
          name : {"a"}]
ArgNames(k) == IF k \in NestedKinds THEN Names ELSE {"a"}

\* The frame of a top-level call: where the handler is (which of its
\* requests is out), the object it was given, whether the alert given to
\* AlertsServiceClient.add carries a trigger / a notification, and the id of
\* the alert in hand (alertobj.id).
Frame(at, obj, t, n, a) ==
    [at |-> at, obj |-> obj, trigger |-> t, notification |-> n, alert |-> a]
NoFrame == Frame("-", NoObject, FALSE, FALSE, None)

\* The request a top-level call sends through _request.
Req(method, path, arg) == [method |-> method, path |-> path, arg |-> arg]

RequestOf(o) ==
    CASE o.name = "login" -> Req("get", "users/username/%s", userName)
      [] o.name \in Accessors -> Req("get", BulkPath(kind), None)
      [] o.name = "get" /\ kind = "namespaces" -> Req("get", BulkPath(kind), None)
      [] o.name = "get" /\ IdPath(kind) # "" -> Req("get", IdPath(kind), o.arg)
      [] o.name = "get" /\ kind = "users" /\ o.by = "id" -> Req("get", "users/id/%s", o.arg)
      [] o.name = "get" /\ kind = "users" /\ o.by = "name" ->
            Req("get", "users/username/%s", o.arg)
      [] o.name = "add" /\ frame.at = "post" -> Req("post", AddPath(kind), None)
      [] o.name = "add" /\ frame.at = "all" -> Req("get", BulkPath(kind), None)
      [] o.name = "add" /\ frame.at = "triggers" ->
            Req("post", AddPath("triggers"), frame.alert)
      [] o.name = "add" /\ frame.at = "triggers_all" ->
            Req("get", BulkPath("triggers"), frame.alert)
      [] o.name = "add" /\ frame.at = "notifications" ->
            Req("post", AddPath("notifications"), frame.alert)
      [] o.name = "add" /\ frame.at = "notifications_all" ->
            Req("get", BulkPath("notifications"), frame.alert)
      [] o.name = "add" /\ frame.at = "add_notification_trigger" ->
            Req("post", "alerts/%s/notifications/%s/triggers/%s", frame.alert)
      [] o.name = "update" /\ kind = "namespaces" -> Req("put", "namespace/%s", o.arg)
      [] o.name = "update" /\ kind # "namespaces" -> Req("put", IdPath(kind), o.arg)
      [] o.name = "update_users" -> Req("put", "namespace/%s/users", o.arg)
      [] o.name = "delete" -> Req("delete", IdPath(kind), o.arg)
      [] o.name = "add_child_alert_to_composite_alert" ->
            Req("post", "alerts/%s/children", None)
      [] o.name = "delete_child_alert_from_composite_alert" ->
            Req("delete", "alerts/%s/children/%s", o.arg)

\* The calls that are answered with an empty body (DELETE has no response).
NoBody == {"delete", "delete_child_alert_from_composite_alert"}

\* What the server answers with when it serves the request.
Served(o) ==
    CASE o.name = "login" -> { [id |-> i, name |-> userName] : i \in Ids }
      [] o.name \in Accessors -> ListsOf(kind)
      [] o.name = "get" /\ kind = "namespaces" -> ListsOf(kind)
      [] o.name = "get" /\ IdPath(kind) # "" -> { x \in ObjectsOf(kind) : x.id = o.arg }
      [] o.name = "get" /\ kind = "users" /\ o.by = "id" -> { x \in Objects : x.id = o.arg }
      [] o.name = "get" /\ kind = "users" /\ o.by = "name" ->
            { x \in Objects : x.name = o.arg }
      [] o.name = "add" /\ frame.at = "post" /\ kind \in NestedKinds -> ListsOf(kind)
      [] o.name = "add" /\ frame.at = "post" /\ kind \notin NestedKinds -> ObjectsOf(kind)
      [] o.name = "add" /\ frame.at = "all" -> ListsOf(kind)
      [] o.name = "add" /\ frame.at \in {"triggers", "triggers_all",
                                         "notifications", "notifications_all"} ->
            OwnedLists(MaxLen)
      [] o.name = "add" /\ frame.at = "add_notification_trigger" ->
            { x \in Objects : x.name = "a" }
      [] o.name \in {"update", "update_users"} -> { x \in ObjectsOf(kind) : x.id = o.arg }
      [] o.name = "add_child_alert_to_composite_alert" -> ObjectsOf(kind)
      [] o.name \in NoBody -> {}

TargetResponses(o) ==
    (IF o.name \in NoBody
     THEN {Response(OK, EmptyBody)}
     ELSE { Response(OK, Payload(v)) : v \in Served(o) }) \cup Failures

\* A top-level call: its name, its argument, and whether the argument is an
\* id or a name (UsersServiceClient.get takes either).
Op(name, arg, by) == [name |-> name, arg |-> arg, by |-> by]

\* A top-level call that ends without a request.
Local(o, r) ==
    /\ op' = o
    /\ start' = cred
    /\ log' = <<>>
    /\ try_cnt' = 0
    /\ pc' = "idle"
    /\ ret' = r

\* The handler returns or raises r.
Done(r) ==
    /\ pc' = "idle"
    /\ try_cnt' = try_cnt
    /\ frame' = frame
    /\ ret' = r

\* The handler goes on to its next request (next_request sends it); a is
\* the id of the alert in hand.
Goto(at, a) ==
    /\ pc' = "request"
    /\ try_cnt' = try_cnt
    /\ frame' = [frame EXCEPT !.at = at, !.alert = a]
    /\ ret' = ret

\* (mutant) the objects of the response are stored into the collection there
\* is, as PermissionsServiceClient._init_all does.
_init_all_Merge(res) ==
    /\ coll' = [k \in DOMAIN coll \cup IdsOf(res) |->
                 IF k \in IdsOf(res) THEN Dict(Filled(kind, res))[k] ELSE coll[k]]
    /\ retrieved_all' = TRUE
    /\ UNCHANGED <<coll_by_name, owner_ids>>

\* BaseModelServiceClient._init_all after its request returned res.
_init_all(res) ==
    /\ coll' = Dict(Filled(kind, res))
    /\ retrieved_all' = TRUE
    /\ UNCHANGED <<coll_by_name, owner_ids>>

\* The positions of the list that hold an object of that name.
Named(list, name) == { i \in DOMAIN list : list[i].name = name }

\* next(t for t in list if t.name == name)
First(list, name) ==
    list[CHOOSE i \in Named(list, name) : \A j \in Named(list, name) : i <= j]

\* (mutant) the list the post returned is stored, _retrieved_all is not set.
NestedAdd_KeepFlag(res) ==
    IF ~retrieved_all /\ res = <<>>
    THEN /\ Goto("all", frame.alert)
         /\ UNCHANGED <<coll, coll_by_name, retrieved_all, owner_ids>>
    ELSE /\ coll' = IF retrieved_all THEN coll ELSE Dict(res)
         /\ retrieved_all' = retrieved_all
         /\ owner_ids' = IdsOf(res)
         /\ Done(IF Named(res, frame.obj.name) # {}
                 THEN Returned(First(res, frame.obj.name))
                 ELSE Raised(ArgusException))
         /\ UNCHANGED coll_by_name

\* AlertTriggersServiceClient.add and AlertNotificationsServiceClient.add
\* once the post has returned the list res: _init_all(res) sends the bulk
\* fetch when res is empty and nothing was retrieved, and does nothing when
\* _retrieved_all is set; the owner's id list is the ids of res; the object
\* of the given name is returned.
NestedAdd(res) ==
    IF ~retrieved_all /\ res = <<>>
    THEN /\ Goto("all", frame.alert)
         /\ UNCHANGED <<coll, coll_by_name, retrieved_all, owner_ids>>
    ELSE /\ coll' = IF retrieved_all THEN coll ELSE Dict(res)
         /\ retrieved_all' = TRUE
         /\ owner_ids' = IdsOf(res)
         /\ Done(IF Named(res, frame.obj.name) # {}
                 THEN Returned(First(res, frame.obj.name))
                 ELSE Raised(ArgusException))
         /\ UNCHANGED coll_by_name

\* The same once the bulk fetch has returned res: the list the post returned
\* was empty, and so is the owner's id list, and no object has the name.
NestedAddAll(res) ==
    /\ coll' = Dict(res)
    /\ retrieved_all' = TRUE
    /\ owner_ids' = {}
    /\ Done(Raised(ArgusException))
    /\ UNCHANGED coll_by_name

\* AlertsServiceClient.add, line 558 on: what comes after the request at
\* position `at`, the collection being d.
AlertAddNext(at, d) ==
    IF at = "post" /\ frame.trigger
    THEN Goto("triggers", frame.alert)
    ELSE IF at \in {"post", "triggers"} /\ frame.notification
         THEN Goto("notifications", frame.alert)
         ELSE IF at = "notifications" /\ frame.trigger
              THEN Goto("add_notification_trigger", frame.alert)
              ELSE Done(Returned(d[frame.alert]))

\* AlertsServiceClient.add once the post of the alert has returned res.
AlertAdd(res) ==
    /\ coll' = Put(coll, res.id, _fill(kind, res))
    /\ IF frame.trigger
       THEN Goto("triggers", res.id)
       ELSE IF frame.notification
            THEN Goto("notifications", res.id)
            ELSE Done(Returned(coll'[res.id]))
    /\ UNCHANGED <<coll_by_name, retrieved_all, owner_ids>>

\* AlertsServiceClient.add, lines 560 and 562: alertobj.triggers.add(...) has
\* posted the trigger and got the list res back (nested is "triggers"), or
\* the same for the notification.  An empty list makes the nested client
\* send its bulk fetch; else the object of the given name is looked up and
\* handed to the setter of model.Alert, which checks its owner and puts a
\* plain list where the nested client was.
AlertAddNested(nested, res) ==
    /\ IF res = <<>>
       THEN /\ Goto(IF nested = "triggers" THEN "triggers_all" ELSE "notifications_all",
                    frame.alert)
            /\ coll' = coll
       ELSE IF Named(res, frame.obj.name) = {}
            THEN Done(Raised(ArgusException)) /\ coll' = coll
            ELSE IF ~First(res, frame.obj.name).owned
                 THEN Done(Raised(ValueError)) /\ coll' = coll
                 ELSE /\ coll' = Put(coll, frame.alert,
                                     IF nested = "triggers"
                                     THEN [coll[frame.alert] EXCEPT !.triggers = PlainList]
                                     ELSE [coll[frame.alert] EXCEPT !.notifications = PlainList])
                      /\ AlertAddNext(nested, coll')
    /\ UNCHANGED <<coll_by_name, retrieved_all, owner_ids>>

\* (mutant) update returns what the put returned and does not store it.
UpdateReturn_NoStore(res) ==
    /\ coll' = coll
    /\ Done(Returned(_fill(kind, res)))
    /\ UNCHANGED <<coll_by_name, retrieved_all, owner_ids>>

\* update (and NamespacesServiceClient.update_users) once the put has
\* returned res: self._coll[id] = res; return self._coll[id]
\* (AlertsServiceClient.update fills what it returns).
UpdateReturn(res) ==
    /\ coll' = Put(coll, op.arg, _fill(kind, res))
    /\ Done(Returned(coll'[op.arg]))
    /\ UNCHANGED <<coll_by_name, retrieved_all, owner_ids>>

\* The rest of the top-level call once _request has returned res.
Return(res) ==
    CASE op.name = "login" ->
            /\ Done(Returned(res))
            /\ UNCHANGED <<coll, coll_by_name, retrieved_all, owner_ids>>
      [] op.name \in Accessors ->
            /\ _init_all(res)
            /\ Done(Returned(View(op.name, op.arg, coll')))
      [] op.name = "get" /\ kind = "namespaces" ->
            /\ _init_all(res)
            /\ Done(IF op.arg \in DOMAIN coll'
                    THEN Returned(coll'[op.arg]) ELSE Raised(KeyError))
      [] op.name = "get" /\ IdPath(kind) # "" ->
            /\ coll' = Put(coll, op.arg, _fill(kind, res))
            /\ Done(Returned(coll'[op.arg]))
            /\ UNCHANGED <<coll_by_name, retrieved_all, owner_ids>>
      [] op.name = "get" /\ kind = "users" /\ op.by = "id" ->
            /\ coll' = Put(coll, op.arg, res)
            /\ coll_by_name' = Put(coll_by_name, res.name, res)
            /\ Done(Returned(coll'[op.arg]))
            /\ UNCHANGED <<retrieved_all, owner_ids>>
      [] op.name = "get" /\ kind = "users" /\ op.by = "name" ->
            /\ coll_by_name' = Put(coll_by_name, op.arg, res)
            /\ coll' = Put(coll, res.id, res)
            /\ Done(Returned(coll_by_name'[op.arg]))
            /\ UNCHANGED <<retrieved_all, owner_ids>>
      [] op.name = "add" /\ kind \in {"namespaces", "dashboards"} ->
            /\ coll' = Put(coll, res.id, _fill(kind, res))
            /\ Done(Returned(coll'[res.id]))
            /\ UNCHANGED <<coll_by_name, retrieved_all, owner_ids>>
      [] op.name = "add" /\ kind = "alerts" /\ frame.at = "post" -> AlertAdd(res)
      [] op.name = "add" /\ kind = "alerts" /\ frame.at \in {"triggers", "notifications"} ->
            AlertAddNested(frame.at, res)
      [] op.name = "add" /\ kind = "alerts"
            /\ frame.at \in {"triggers_all", "notifications_all"} ->
            /\ Done(Raised(ArgusException))
            /\ UNCHANGED <<coll, coll_by_name, retrieved_all, owner_ids>>
      [] op.name = "add" /\ kind = "alerts" /\ frame.at = "add_notification_trigger" ->
            /\ Done(Returned(coll[frame.alert]))
            /\ UNCHANGED <<coll, coll_by_name, retrieved_all, owner_ids>>
      [] op.name = "add" /\ kind \in NestedKinds /\ frame.at = "post" -> NestedAdd(res)
      [] op.name = "add" /\ kind \in NestedKinds /\ frame.at = "all" -> NestedAddAll(res)
      [] op.name \in {"update", "update_users"} -> UpdateReturn(res)
      [] op.name = "delete" ->
            /\ coll' = Del(coll, op.arg)
            /\ owner_ids' = IF kind \in NestedKinds THEN DOMAIN coll' ELSE owner_ids
            /\ Done(Returned(None))
            /\ UNCHANGED <<coll_by_name, retrieved_all>>
      [] op.name = "add_child_alert_to_composite_alert" ->
            /\ coll' = Put(coll, res.id, _fill(kind, res))
            /\ Done(Returned(coll'[res.id]))
            /\ UNCHANGED <<coll_by_name, retrieved_all, owner_ids>>
      [] op.name = "delete_child_alert_from_composite_alert" ->
            /\ Done(Returned(res))
            /\ UNCHANGED <<coll, coll_by_name, retrieved_all, owner_ids>>

\* with_auth_token, lines 839-843, and _request_no_auth: the wrapped call.
with_auth_token_call ==
    /\ pc = "call"
    /\ \E resp \in TargetResponses(op) :
         LET r == check_success(resp)
             q == RequestOf(op) IN
         /\ log' = Append(log, Call("target", q.method, q.path, Bearer(cred),
                                    [r EXCEPT !.res = None]))
         /\ IF r.exc = NoException
            THEN /\ cred' = cred
                 /\ Return(r.res)
            ELSE /\ cred' = IF r.exc = ArgusAuthException THEN OnAuthFailure(cred) ELSE cred
                 /\ with_retry(r.exc, cred')
                 /\ UNCHANGED <<coll, coll_by_name, retrieved_all, owner_ids, frame>>
    /\ changed' = (changed \/ coll' # coll)
    /\ UNCHANGED <<op, start, kind>>

\* ArgusServiceClient.login: a plain request through _request.
login ==
    /\ pc = "idle"
    /\ _request(Op("login", None, "-"))
    /\ frame' = NoFrame
    /\ changed' = FALSE
    /\ UNCHANGED <<cred, kind, coll, coll_by_name, retrieved_all, owner_ids>>

\* A handler that has more than one request calls _request again: the
\* attempts, and the calls logged, are those of the request in hand.
next_request ==
    /\ pc = "request"
    /\ _request(op)
    /\ UNCHANGED <<cred, kind, coll, coll_by_name, retrieved_all, owner_ids, frame, changed>>

\* ArgusServiceClient.logout: both tokens are dropped, nothing is sent.
logout ==
    /\ pc = "idle"
    /\ cred' = [cred EXCEPT !.refreshToken = None, !.accessToken = None]
    /\ Local(Op("logout", None, "-"), Returned(None))
    /\ frame' = NoFrame
    /\ changed' = FALSE
    /\ UNCHANGED <<kind, coll, coll_by_name, retrieved_all, owner_ids>>

\* (mutant) _init_all does not look at _retrieved_all.
Access_AlwaysFetch(m, key) ==
    /\ pc = "idle"
    /\ IF BulkPath(kind) = ""
       THEN Local(Op(m, key, "id"), Raised(TypeError))
       ELSE _request(Op(m, key, "id"))
    /\ frame' = NoFrame
    /\ changed' = FALSE
    /\ UNCHANGED <<cred, kind, coll, coll_by_name, retrieved_all, owner_ids>>

\* (mutant) no bulk fetch: the local collection is served as it is.
Access_ServesLocal(m, key) ==
    /\ pc = "idle"
    /\ IF BulkPath(kind) = ""
       THEN Local(Op(m, key, "id"), Raised(TypeError))
       ELSE Local(Op(m, key, "id"), Returned(View(m, key, coll)))
    /\ frame' = NoFrame
    /\ changed' = FALSE
    /\ UNCHANGED <<cred, kind, coll, coll_by_name, retrieved_all, owner_ids>>

\* items, keys, values, __iter__, __len__, __contains__ of
\* BaseModelServiceClient: _init_all, then a read of the local collection.
Access(m, key) ==
    /\ pc = "idle"
    /\ IF BulkPath(kind) = ""
       THEN Local(Op(m, key, "id"), Raised(TypeError))
       ELSE IF retrieved_all
            THEN Local(Op(m, key, "id"), Returned(View(m, key, coll)))
            ELSE _request(Op(m, key, "id"))
    /\ frame' = NoFrame
    /\ changed' = FALSE
    /\ UNCHANGED <<cred, kind, coll, coll_by_name, retrieved_all, owner_ids>>

items == Access("items", None)
keys == Access("keys", None)
values == Access("values", None)
__iter__ == Access("__iter__", None)
__len__ == Access("__len__", None)
__contains__ == \E key \in Ids : Access("__contains__", key)

\* (mutant) the bulk fetch comes first, whether or not id is there.
BaseModelServiceClient_get_AlwaysInit(id) ==
    IF retrieved_all
    THEN IF id \in DOMAIN coll
         THEN Local(Op("get", id, "id"), Returned(coll[id]))
         ELSE Local(Op("get", id, "id"), Raised(KeyError))
    ELSE _request(Op("get", id, "id"))

\* (mutant) the bulk fetch is sent again for an id that is still not there.
BaseModelServiceClient_get_Refetch(id) ==
    IF id \in DOMAIN coll
    THEN Local(Op("get", id, "id"), Returned(coll[id]))
    ELSE _request(Op("get", id, "id"))

\* BaseModelServiceClient.get (namespaces): bulk fetch unless id is there.
BaseModelServiceClient_get(id) ==
    IF id \in DOMAIN coll
    THEN Local(Op("get", id, "id"), Returned(coll[id]))
    ELSE IF retrieved_all
         THEN Local(Op("get", id, "id"), Raised(KeyError))
         ELSE _request(Op("get", id, "id"))

\* (mutant) the local collection is not looked at.
BaseUpdatableModelServiceClient_get_NoLookup(id) ==
    IF id = None
    THEN Local(Op("get", id, "id"), Raised(ValueError))
    ELSE _request(Op("get", id, "id"))

\* BaseUpdatableModelServiceClient.get (dashboards, alerts, an alert's
\* triggers and notifications): fetch id unless it is there.
BaseUpdatableModelServiceClient_get(id) ==
    IF id = None
    THEN Local(Op("get", id, "id"), Raised(ValueError))
    ELSE IF id \in DOMAIN coll
         THEN Local(Op("get", id, "id"), Returned(coll[id]))
         ELSE _request(Op("get", id, "id"))

\* UsersServiceClient.get by id and by username.
UsersServiceClient_get_id(id) ==
    IF id = None
    THEN Local(Op("get", id, "id"), Raised(ValueError))
    ELSE IF id \in DOMAIN coll
         THEN Local(Op("get", id, "id"), Returned(coll[id]))
         ELSE _request(Op("get", id, "id"))

UsersServiceClient_get_name(key) ==
    IF key \in DOMAIN coll_by_name
    THEN Local(Op("get", key, "name"), Returned(coll_by_name[key]))
    ELSE _request(Op("get", key, "name"))

get ==
    /\ pc = "idle"
    /\ \/ /\ kind = "namespaces"
          /\ \E id \in Ids : BaseModelServiceClient_get(id)
       \/ /\ IdPath(kind) # ""
          /\ \E id \in Ids \cup {None} : BaseUpdatableModelServiceClient_get(id)
       \/ /\ kind = "users"
          /\ \E id \in Ids \cup {None} : UsersServiceClient_get_id(id)
       \/ /\ kind = "users"
          /\ \E key \in Names : UsersServiceClient_get_name(key)
    /\ frame' = NoFrame
    /\ changed' = FALSE
    /\ UNCHANGED <<cred, kind, coll, coll_by_name, retrieved_all, owner_ids>>

\* add of NamespacesServiceClient, DashboardsServiceClient,
\* AlertsServiceClient, AlertTriggersServiceClient and
\* AlertNotificationsServiceClient: the object must be of the client's type
\* and new (without an id); then it is posted.  t and n: the alert carries
\* a trigger, a notification.
add_to(obj, t, n) ==
    /\ IF obj.type # kind
       THEN Local(Op("add", obj.id, "id"), Raised(TypeError))
       ELSE IF obj.id # None
            THEN Local(Op("add", obj.id, "id"), Raised(ValueError))
            ELSE _request(Op("add", obj.id, "id"))
    /\ frame' = Frame("post", obj, t, n, None)

add ==
    /\ pc = "idle"
    /\ kind \in {"namespaces", "dashboards", "alerts"} \cup NestedKinds
    /\ \E obj \in ArgObjects(kind), name \in ArgNames(kind), t, n \in BOOLEAN :
         /\ kind # "alerts" => (~t /\ ~n)
         /\ obj = BadObject => name = "a"
         /\ add_to([obj EXCEPT !.name = name], t, n)
    /\ changed' = FALSE
    /\ UNCHANGED <<cred, kind, coll, coll_by_name, retrieved_all, owner_ids>>

\* BaseModelServiceClient.update and .delete: unsupported.
BaseModelServiceClient_update(id, obj) ==
    Local(Op("update", id, "id"), Raised(TypeError))

BaseModelServiceClient_delete(id) ==
    Local(Op("delete", id, "id"), Raised(TypeError))

\* NamespacesServiceClient.update: the checks of lines 288-291 (the type of
\* the object is not looked at: a dict fails on the attribute argus_id, any
\* model object has it), then the put.
NamespacesServiceClient_update(id, namespace) ==
    IF id = None
    THEN Local(Op("update", id, "id"), Raised(ValueError))
    ELSE IF namespace = BadObject
         THEN Local(Op("update", id, "id"), Raised(AttributeError))
         ELSE IF namespace.id = None \/ id # namespace.id
              THEN Local(Op("update", id, "id"), Raised(ValueError))
              ELSE _request(Op("update", id, "id"))

\* BaseUpdatableModelServiceClient.update: the checks of lines 340-345, then
\* the put.
BaseUpdatableModelServiceClient_update(id, obj) ==
    IF id = None
    THEN Local(Op("update", id, "id"), Raised(ValueError))
    ELSE IF obj.type # kind
         THEN Local(Op("update", id, "id"), Raised(TypeError))
         ELSE IF obj.id = None \/ id # obj.id
              THEN Local(Op("update", id, "id"), Raised(ValueError))
              ELSE _request(Op("update", id, "id"))

update ==
    /\ pc = "idle"
    /\ \E id \in Ids \cup {None}, obj \in ArgObjects(kind) :
         /\ CASE kind = "users" -> BaseModelServiceClient_update(id, obj)
              [] kind = "namespaces" -> NamespacesServiceClient_update(id, obj)
              [] OTHER -> BaseUpdatableModelServiceClient_update(id, obj)
         /\ frame' = Frame("put", obj, FALSE, FALSE, None)
    /\ changed' = FALSE
    /\ UNCHANGED <<cred, kind, coll, coll_by_name, retrieved_all, owner_ids>>

\* NamespacesServiceClient.update_users
update_users ==
    /\ pc = "idle"
    /\ kind = "namespaces"
    /\ \E namespaceid \in Ids \cup {None} :
         IF namespaceid = None
         THEN Local(Op("update_users", namespaceid, "id"), Raised(ValueError))
         ELSE _request(Op("update_users", namespaceid, "id"))
    /\ frame' = NoFrame
    /\ changed' = FALSE
    /\ UNCHANGED <<cred, kind, coll, coll_by_name, retrieved_all, owner_ids>>

\* BaseUpdatableModelServiceClient.delete, up to its request.
BaseUpdatableModelServiceClient_delete(id) ==
    IF id = None
    THEN Local(Op("delete", id, "id"), Raised(ValueError)) /\ coll' = coll
    ELSE _request(Op("delete", id, "id")) /\ coll' = coll

delete ==
    /\ pc = "idle"
    /\ \E id \in Ids \cup {None} :
         IF IdPath(kind) = ""
         THEN BaseModelServiceClient_delete(id) /\ coll' = coll
         ELSE BaseUpdatableModelServiceClient_delete(id)
    /\ frame' = NoFrame
    /\ changed' = (coll' # coll)
    /\ UNCHANGED <<cred, kind, coll_by_name, retrieved_all, owner_ids>>

\* AlertsServiceClient.add_child_alert_to_composite_alert: the checks of
\* lines 695-698 (an empty dict is falsy: line 696), then the post.  The
\* composite alert's id goes into the path and nowhere else.
add_child_alert_to_composite_alert ==
    /\ pc = "idle"
    /\ kind = "alerts"
    /\ \E comp_alert_id \in Ids \cup {None}, alert \in ArgObjects(kind) :
         /\ IF comp_alert_id = None \/ alert = BadObject
            THEN Local(Op("add_child_alert_to_composite_alert", alert.id, "id"),
                       Raised(ValueError))
            ELSE IF alert.type # kind
                 THEN Local(Op("add_child_alert_to_composite_alert", alert.id, "id"),
                            Raised(TypeError))
                 ELSE _request(Op("add_child_alert_to_composite_alert", alert.id, "id"))
         /\ frame' = Frame("post", alert, FALSE, FALSE, None)
    /\ changed' = FALSE
    /\ UNCHANGED <<cred, kind, coll, coll_by_name, retrieved_all, owner_ids>>

\* AlertsServiceClient.delete_child_alert_from_composite_alert: the checks
\* of lines 716-719, the removal from the local collection (lines 722-723),
\* then the request (line 724).
delete_child_alert_from_composite_alert ==
    /\ pc = "idle"
    /\ kind = "alerts"
    /\ \E comp_alert_id, child_alert_id \in Ids \cup {None} :
         /\ IF comp_alert_id = None \/ child_alert_id = None
            THEN /\ Local(Op("delete_child_alert_from_composite_alert", child_alert_id, "id"),
                          Raised(ValueError))
                 /\ coll' = coll
            ELSE /\ _request(Op("delete_child_alert_from_composite_alert",
                                child_alert_id, "id"))
                 /\ coll' = Del(coll, child_alert_id)
         /\ frame' = Frame("delete", NoObject, FALSE, FALSE, None)
    /\ changed' = (coll' # coll)
    /\ UNCHANGED <<cred, kind, coll_by_name, retrieved_all, owner_ids>>

----------------------------------------------------------------------------
(* Specifications. *)

Idle ==
    /\ pc = "idle"
    /\ try_cnt = 0
    /\ op = Op("none", None, "-")
    /\ ret = NoRet
    /\ start = cred
    /\ log = <<>>
    /\ frame = NoFrame
    /\ changed = FALSE

\* A service client as its __init__ leaves it.
Empty ==
    /\ coll = EmptyDict
    /\ coll_by_name = EmptyDict
    /\ retrieved_all = FALSE
    /\ owner_ids = {}

\* The session protocol: every session __init__ accepts, plain requests.
Init ==
    /\ cred \in ValidSessions
    /\ kind = "users"
    /\ Empty
    /\ Idle

Next ==
    \/ login
    \/ logout
    \/ with_auth_token_refresh
    \/ with_auth_token_login
    \/ with_auth_token_call

Spec == Init /\ [][Next]_vars

\* The requests of a session in any state a session can be in (after logout
\* it may hold no token, and no password either), with the scheduling of the
\* code: _request is sequential and each of its calls returns (requests is
\* given a timeout), so a request that is running takes its next step, which
\* adds a call to the log.
InitLive ==
    /\ cred \in Credentials
    /\ kind = "users"
    /\ Empty
    /\ Idle

NextLive ==
    \/ login
    \/ with_auth_token_refresh
    \/ with_auth_token_login
    \/ with_auth_token_call

SpecLive ==
    /\ InitLive
    /\ [][NextLive]_vars
    /\ WF_log(with_auth_token_refresh)
    /\ WF_log(with_auth_token_login)
    /\ WF_log(with_auth_token_call)

\* What the caller may pass as user and as endpoint ("": none, or empty).
Users == {"", userName}
Endpoints == {"", "endpoint"}

\* No session: the constructor has not returned one.
NoSession == [user |-> "", password |-> "", refreshToken |-> None, accessToken |-> None]

\* The arguments of ArgusServiceClient(user, password, endpoint,
\* refreshToken=, accessToken=).
InitArgs ==
    [user : Users, password : Passwords, endpoint : Endpoints,
     refreshToken : TokOpt, accessToken : TokOpt]

\* (mutant) the endpoint is not looked at.
ArgusServiceClient_init_AnyEndpoint(a) ==
    IF a.user = ""
    THEN Raised(ValueError)
    ELSE IF a.password = "" /\ a.refreshToken = None /\ a.accessToken = None
         THEN Raised(ValueError)
         ELSE Returned([user |-> a.user, password |-> a.password,
                        refreshToken |-> a.refreshToken, accessToken |-> a.accessToken])

\* ArgusServiceClient.__init__, lines 915-927: the three checks, then the
\* fields of the session.
ArgusServiceClient_init(a) ==
    IF a.user = ""
    THEN Raised(ValueError)
    ELSE IF a.password = "" /\ a.refreshToken = None /\ a.accessToken = None
         THEN Raised(ValueError)
         ELSE IF a.endpoint = ""
              THEN Raised(ValueError)
              ELSE Returned([user |-> a.user, password |-> a.password,
                             refreshToken |-> a.refreshToken,
                             accessToken |-> a.accessToken])

\* The caller constructs a session: pc is "new" until a constructor call has
\* returned one.
ArgusServiceClient_new ==
    /\ pc = "new"
    /\ \E a \in InitArgs :
         LET r == ArgusServiceClient_init(a) IN
         /\ op' = Op("__init__", None, "-")
         /\ frame' = Frame("__init__", a, FALSE, FALSE, None)
         /\ ret' = r
         /\ cred' = IF r.exc = NoException THEN r.val ELSE cred
         /\ start' = cred'
         /\ pc' = IF r.exc = NoException THEN "idle" ELSE "new"
    /\ UNCHANGED <<try_cnt, log, kind, coll, coll_by_name, retrieved_all, owner_ids, changed>>

\* The construction of a session, and the session protocol after it.
InitNew ==
    /\ cred = NoSession
    /\ pc = "new"
    /\ try_cnt = 0
    /\ op = Op("none", None, "-")
    /\ ret = NoRet
    /\ start = cred
    /\ log = <<>>
    /\ frame = NoFrame
    /\ changed = FALSE
    /\ kind = "users"
    /\ Empty

NextNew ==
    \/ ArgusServiceClient_new
    \/ login
    \/ logout
    \/ with_auth_token_refresh
    \/ with_auth_token_login
    \/ with_auth_token_call

SpecNew == InitNew /\ [][NextNew]_vars

\* The responses check_success is applied to: the statuses it tells apart and
\* some it does not, with every kind of body.
Statuses == {OK, NOT_FOUND, UNAUTHORIZED, SERVER_ERROR, 201, 400, 403}
Bodies ==
    {EmptyBody, TextBody, Payload(<<>>)}
    \cup { StatusBody(s) : s \in {OK, NOT_FOUND, 400} }
    \cup { Payload([accessToken |-> a]) : a \in Tokens }
Responses == { Response(c, b) : c \in Statuses, b \in Bodies }

\* _request_no_auth, lines 994-995: res = check_success(resp, decCls).
call_check_success ==
    /\ pc = "check"
    /\ LET r == check_success(frame.obj) IN
         /\ ret' = [exc |-> r.exc, val |-> r.res]
         /\ op' = Op("check_success", None, "-")
         /\ pc' = "idle"
    /\ UNCHANGED <<cred, try_cnt, start, log, kind, coll, coll_by_name,
                   retrieved_all, owner_ids, frame, changed>>

\* The classification of one response.
InitCheck ==
    /\ cred = NoSession
    /\ pc = "check"
    /\ try_cnt = 0
    /\ op = Op("none", None, "-")
    /\ ret = NoRet
    /\ start = cred
    /\ log = <<>>
    /\ \E resp \in Responses : frame = Frame("check_success", resp, FALSE, FALSE, None)
    /\ changed = FALSE
    /\ kind = "users"
    /\ Empty

NextCheck == call_check_success

SpecCheck == InitCheck /\ [][NextCheck]_vars

\* A session built with an accessToken only (testAuthWithDirectAccessToken;
\* which token does not matter, so the first).
\* Such a session never has a refreshToken or a password, so with_auth_token
\* goes straight to the wrapped call, which the second attempt of with_retry
\* sends again.
TokenSessions ==
    { c \in ValidSessions :
        /\ c.password = "" /\ c.refreshToken = None
        /\ \A t \in Tokens : c.accessToken <= t }

\* with_auth_token_call when the server serves the bulk fetch of an access
\* with the list in frame.obj.
bulk_fetch_served ==
    /\ pc = "call"
    /\ op.name \in Accessors
    /\ frame.at = "all"
    /\ log' = Append(log, Call("target", "get", BulkPath(kind), Bearer(cred),
                               [exc |-> NoException, res |-> None]))
    /\ Return(frame.obj)
    /\ changed' = (changed \/ coll' # coll)
    /\ UNCHANGED <<cred, op, start, kind>>

\* The first bulk fetch of a collection: items, values or __len__ has sent
\* it, on a collection that holds what add, get and update have put there
\* (any objects of the kind), and the server's list is on its way.
InitFetch ==
    /\ cred \in TokenSessions
    /\ kind \in (Kinds \cup NestedKinds) \ {"users"}
    /\ \E held \in ListsOf(kind), res \in ListsOf(kind), m \in WholeAccess :
         /\ coll = Dict(Filled(kind, held))
         /\ frame = Frame("all", res, FALSE, FALSE, None)
         /\ op = Op(m, None, "id")
    /\ coll_by_name = EmptyDict
    /\ retrieved_all = FALSE
    /\ owner_ids = {}
    /\ pc = "call"
    /\ try_cnt = 1
    /\ ret = NoRet
    /\ start = cred
    /\ log = <<>>
    /\ changed = FALSE

NextFetch == bulk_fetch_served

SpecFetch == InitFetch /\ [][NextFetch]_vars

\* The collections: one service client of each kind, on such a session.
InitColl ==
    /\ cred \in TokenSessions
    /\ kind \in Kinds
    /\ Empty
    /\ Idle

NextColl ==
    \/ items
    \/ keys
    \/ values
    \/ __iter__
    \/ __len__
    \/ __contains__
    \/ get
    \/ add
    \/ update
    \/ update_users
    \/ delete
    \/ add_child_alert_to_composite_alert
    \/ delete_child_alert_from_composite_alert
    \/ next_request
    \/ with_auth_token_call

SpecColl == InitColl /\ [][NextColl]_vars

\* The nested collections of one alert that alerts.get returned.  The server
\* listed the alert's triggers (notifications) in triggerIds
\* (notificationIds) and either embedded them or not; the nested client's
\* __init__ calls _init_all on a non-empty embedded list.
InitAlert ==
    /\ cred \in TokenSessions
    /\ kind \in NestedKinds
    /\ \E listed \in ListsOf(kind), embedded \in BOOLEAN :
         /\ owner_ids = IdsOf(listed)
         /\ coll = IF embedded THEN Dict(listed) ELSE EmptyDict
         /\ retrieved_all = (embedded /\ listed # <<>>)
    /\ coll_by_name = EmptyDict
    /\ Idle

NextAlert ==
    \/ items
    \/ values
    \/ __len__
    \/ get
    \/ add
    \/ update
    \/ delete
    \/ next_request
    \/ with_auth_token_call

SpecAlert == InitAlert /\ [][NextAlert]_vars

----------------------------------------------------------------------------
(* Reading the log. *)

Count(k) == Cardinality({ i \in DOMAIN log : log[i].kind = k })

\* The calls of the log, by kind, in order.
KindsOf(l) == [i \in DOMAIN l |-> l[i].kind]
ExcsOf(l) == [i \in DOMAIN l |-> l[i].exc]

\* The ArgusAuthExceptions that left with_auth_token: every refused wrapped
\* call and login, and a refused refresh when there is no password.
AuthRaised ==
    Cardinality({ i \in DOMAIN log :
        /\ log[i].exc = ArgusAuthException
        /\ log[i].kind = "refresh" => cred.password = "" })

\* A _request (here: of login()) is running or has ended.
InRequest == op.name = "login"
RequestEnded == op.name = "login" /\ pc = "idle"

\* Server behaviours, as seen by the current request.
\* The server refuses every wrapped call that bears token t with 401.
Rejects(t) ==
    \A i \in DOMAIN log :
        (log[i].kind = "target" /\ log[i].bearer = t) => log[i].exc = ArgusAuthException

\* The server serves every wrapped call that bears another token than t.
AcceptsOthers(t) ==
    \A i \in DOMAIN log :
        (log[i].kind = "target" /\ log[i].bearer # t) => log[i].exc = NoException

\* The server refuses no wrapped call with 401.
NoTargetRefused ==
    \A i \in DOMAIN log : log[i].kind = "target" => log[i].exc # ArgusAuthException

\* Every call of kind k is answered with exc.
Answers(k, exc) == \A i \in DOMAIN log : log[i].kind = k => log[i].exc = exc

\* Every token minted by a call of kind k differs from t.
MintsNew(k, t) ==
    \A i \in DOMAIN log :
        (log[i].kind = k /\ log[i].exc = NoException) => log[i].res.accessToken # t

----------------------------------------------------------------------------
(* The session protocol (specification Spec). *)

\* C1: every _request makes at most two attempts.  Each ArgusAuthException
\* that leaves with_auth_token while try_cnt is 1 starts exactly one more
\* attempt; the second one ends the request, which raises
\* ArgusAuthException; the wrapped call is never sent a third time.
C1_AtMostTwoAttempts ==
    InRequest =>
        /\ Count("target") <= 2
        /\ AuthRaised <= 2
        /\ try_cnt = (IF AuthRaised = 2 THEN 2 ELSE AuthRaised + 1)
        /\ AuthRaised = 2 => pc = "idle"
        /\ pc = "idle" => (ret.exc = ArgusAuthException <=> AuthRaised = 2)

C1_Witness ==
    /\ RequestEnded
    /\ ret.exc = ArgusAuthException
    /\ KindsOf(log) = <<"target", "login", "target">>

\* C2: on a session that holds only a password which the server accepts, the
\* request sends exactly one login call, before the wrapped call, and keeps
\* the two tokens the login returned; a request that starts with an
\* accessToken the server does not refuse sends no login and no refresh call.
C2_LoginOnceThenNone ==
    InRequest =>
        /\ ( /\ pc = "idle"
             /\ start.accessToken = None /\ start.refreshToken = None
             /\ start.password # ""
             /\ Answers("login", NoException)
             /\ NoTargetRefused )
           => /\ KindsOf(log) = <<"login", "target">>
              /\ cred.refreshToken = log[1].res.refreshToken
              /\ cred.accessToken = log[1].res.accessToken
        /\ (start.accessToken # None /\ NoTargetRefused)
           => (Count("login") = 0 /\ Count("refresh") = 0)

C2_Witness ==
    /\ RequestEnded
    /\ start.accessToken = None /\ start.refreshToken = None
    /\ start.password # ""
    /\ ExcsOf(log) = <<NoException, NoException>>
    /\ ret.exc = NoException
    /\ cred.accessToken # None /\ cred.refreshToken # None

\* The case of C3: a request that has ended, on such a session and server.
C3_Premise ==
    /\ RequestEnded
    /\ start.accessToken # None /\ start.refreshToken # None
    /\ Rejects(start.accessToken)
    /\ AcceptsOthers(start.accessToken)
    /\ Answers("refresh", NoException)
    /\ MintsNew("refresh", start.accessToken)

\* C3: the session has an accessToken the server refuses and a refreshToken
\* the server accepts (the refresh mints another accessToken, which the server
\* accepts).  The request sends exactly one refresh call and no login call
\* and succeeds; afterwards accessToken is the minted token and refreshToken
\* is what it was.
C3_RefreshOnce ==
    C3_Premise =>
        /\ KindsOf(log) = <<"target", "refresh", "target">>
        /\ ret.exc = NoException
        /\ cred.accessToken = log[2].res.accessToken
        /\ cred.accessToken # start.accessToken
        /\ cred.refreshToken = start.refreshToken

C3_Witness == C3_Premise /\ ret.exc = NoException /\ Count("refresh") = 1

\* The case of C4: a request that has ended, on such a session and server.
C4_Premise ==
    /\ RequestEnded
    /\ start.accessToken # None /\ start.refreshToken # None /\ start.password # ""
    /\ Rejects(start.accessToken)
    /\ AcceptsOthers(start.accessToken)
    /\ Answers("refresh", ArgusAuthException)
    /\ Answers("login", NoException)
    /\ MintsNew("login", start.accessToken)

\* C4: the session has an accessToken and a refreshToken the server refuses
\* and a password the server accepts (the login mints another accessToken,
\* which the server accepts).  The request sends the refused wrapped call,
\* one refused refresh, one served login and the wrapped call again, in this
\* order, and succeeds; both tokens are then those the login returned.
C4_RefreshThenLogin ==
    C4_Premise =>
        /\ KindsOf(log) = <<"target", "refresh", "login", "target">>
        /\ ret.exc = NoException
        /\ cred.refreshToken = log[3].res.refreshToken
        /\ cred.accessToken = log[3].res.accessToken

C4_Witness == C4_Premise /\ ret.exc = NoException /\ Count("login") = 1

\* The case of C5: a request that has ended, on such a session and server.
C5_Premise ==
    /\ RequestEnded
    /\ start.password = "" /\ start.refreshToken # None
    /\ Answers("refresh", ArgusAuthException)
    /\ start.accessToken # None => Rejects(start.accessToken)

\* C5 as stated: without a password and with a refreshToken the server
\* refuses, whether the accessToken is absent or refused, the request raises
\* ArgusAuthException after exactly one refresh call and no login call.
C5_OneFailedRefresh ==
    C5_Premise =>
        /\ ret.exc = ArgusAuthException
        /\ Count("refresh") = 1
        /\ Count("login") = 0

\* C5 amended: the request raises ArgusAuthException without any login call;
\* it sends one refused refresh call after the refused wrapped call when the
\* session had an accessToken, and two refused refresh calls (one in each
\* attempt of with_retry) and no wrapped call when it had none.
C5_FailedRefreshPerAttempt ==
    C5_Premise =>
        /\ ret.exc = ArgusAuthException
        /\ Count("login") = 0
        /\ start.accessToken # None => KindsOf(log) = <<"target", "refresh">>
        /\ start.accessToken = None => KindsOf(log) = <<"refresh", "refresh">>

C5_Witness ==
    /\ C5_Premise
    /\ start.accessToken = None
    /\ Count("refresh") = 2
    /\ ret.exc = ArgusAuthException

\* C6: a call (wrapped call, refresh or login) that fails with a not-found
\* or generic failure is the last call of its request: the request ends at
\* once raising that failure, and the accessToken the failing wrapped call
\* bore is still the session's.
C6_NonAuthFailurePropagates ==
    \A i \in DOMAIN log :
        log[i].exc \in {ArgusObjectNotFoundException, ArgusException} =>
            /\ i = Len(log)
            /\ pc = "idle"
            /\ ret.exc = log[i].exc
            /\ log[i].kind = "target" => cred.accessToken = log[i].bearer

C6_Witness ==
    /\ RequestEnded
    /\ Len(log) = 3
    /\ log[3].kind = "target"
    /\ log[3].exc = ArgusObjectNotFoundException
    /\ log[3].bearer # None

\* The step in which the server refuses the wrapped call with 401.
TargetRefused ==
    /\ pc = "call"
    /\ Len(log') = Len(log) + 1
    /\ log'[Len(log')].exc = ArgusAuthException

\* C7: the step in which the server refuses the wrapped call with 401 clears
\* accessToken and leaves refreshToken, password and user as they were, and
\* hands the failure to with_retry: the attempt is over, and either the
\* second attempt starts or the request raises ArgusAuthException.
C7_AuthFailureClearsAccessToken ==
    [][ TargetRefused =>
          /\ cred'.accessToken = None
          /\ cred'.refreshToken = cred.refreshToken
          /\ cred'.password = cred.password
          /\ cred'.user = cred.user
          /\ \/ try_cnt = 1 /\ try_cnt' = 2 /\ pc' = AuthEntry(cred')
             \/ try_cnt = 2 /\ try_cnt' = 2 /\ pc' = "idle" /\ ret' = Raised(ArgusAuthException)
      ]_vars

C7_Witness ==
    /\ InRequest
    /\ Len(log) = 1
    /\ log[1].kind = "target"
    /\ log[1].exc = ArgusAuthException
    /\ cred.accessToken = None
    /\ cred.refreshToken # None
    /\ pc = "refresh"

\* C8 as stated: every wrapped call is sent with an accessToken as bearer
\* credential; only login and refresh calls are sent without one.
C8_EveryTargetBearsToken ==
    \A i \in DOMAIN log : log[i].kind = "target" => log[i].bearer # None

----------------------------------------------------------------------------
(* The collections (specification SpecColl). *)

\* The step sends the bulk-fetch request of the collection.
BulkFetchSent ==
    /\ Len(log') = Len(log) + 1
    /\ log'[Len(log')].kind = "target"
    /\ log'[Len(log')].method = "get"
    /\ log'[Len(log')].path = BulkPath(kind)

\* C9: once a bulk fetch has succeeded (_retrieved_all is True), the flag
\* stays True and no later step of any call on the collection (items, keys,
\* values, __len__, __iter__, __contains__ included) sends the bulk-fetch
\* request again.
C9_BulkFetchOnce ==
    [][ retrieved_all => (retrieved_all' /\ ~BulkFetchSent) ]_vars

C9_Witness ==
    /\ retrieved_all
    /\ op.name = "items"
    /\ pc = "idle"
    /\ log = <<>>
    /\ ret.exc = NoException
    /\ coll # EmptyDict

\* C10: get(id) of an id that is in the local collection returns the object
\* held there and sends nothing, whether or not _retrieved_all is set, for
\* the bulk-only, the per-id and the users client alike.
C10_CachedGetIsLocal ==
    [][ (pc = "idle" /\ op'.name = "get" /\ op'.by = "id" /\ op'.arg \in DOMAIN coll) =>
          /\ pc' = "idle"
          /\ log' = <<>>
          /\ ret' = Returned(coll[op'.arg])
          /\ coll' = coll
          /\ retrieved_all' = retrieved_all
      ]_vars

C10_Witness ==
    /\ kind = "namespaces"
    /\ ~retrieved_all
    /\ op.name = "get"
    /\ op.arg \in DOMAIN coll
    /\ pc = "idle"
    /\ log = <<>>
    /\ ret = Returned(coll[op.arg])

----------------------------------------------------------------------------
(* Adding, updating and deleting (specification SpecColl). *)

TopLevel == {"namespaces", "dashboards", "alerts"}

\* The last call was an add, or an add_child_alert_to_composite_alert, on a
\* top-level collection, and it returned an object.
AddedOk ==
    /\ pc = "idle"
    /\ kind \in TopLevel
    /\ op.name \in {"add", "add_child_alert_to_composite_alert"}
    /\ ret.exc = NoException

\* C11: on dashboards, namespaces and alerts (add_child_alert_to_composite_alert
\* included), the object a successful add returned is in the local collection
\* under the id the server gave it, and a get of that id right after the add
\* returns that object and sends nothing.
C11_AddThenGetIsLocal ==
    [][ (AddedOk /\ op'.name = "get" /\ op'.arg = ret.val.id) =>
          /\ ret.val.id \in DOMAIN coll
          /\ coll[ret.val.id] = ret.val
          /\ pc' = "idle"
          /\ log' = <<>>
          /\ ret' = ret
          /\ coll' = coll
      ]_vars

C11_Witness ==
    /\ AddedOk
    /\ kind = "alerts"
    /\ op.name = "add_child_alert_to_composite_alert"
    /\ ~retrieved_all
    /\ coll[ret.val.id] = ret.val

\* The call that starts in this step is given one of the malformed inputs:
\* update without an id, with an object of another type or no model object,
\* with an object without id or with another id; add of an object of
\* another type or of one that has an id; delete without an id; get(None) on
\* a client that fetches by id.
Malformed ==
    \/ /\ op'.name = "update"
       /\ \/ op'.arg = None
          \/ frame'.obj.type # kind
          \/ frame'.obj.id = None
          \/ frame'.obj.id # op'.arg
    \/ /\ op'.name = "add"
       /\ (frame'.obj.type # kind \/ frame'.obj.id # None)
    \/ /\ op'.name = "delete"
       /\ op'.arg = None
    \/ /\ op'.name = "get"
       /\ op'.by = "id"
       /\ op'.arg = None
       /\ IdPath(kind) # ""

\* C12: a call with a malformed input ends at once by raising, without any
\* transport call, and leaves the local collection, the _retrieved_all flag
\* and the session's credentials as they were.
C12_MalformedFailsLocally ==
    [][ (pc = "idle" /\ Malformed) =>
          /\ pc' = "idle"
          /\ log' = <<>>
          /\ ret'.exc \notin {NoException, "pending"}
          /\ coll' = coll
          /\ coll_by_name' = coll_by_name
          /\ retrieved_all' = retrieved_all
          /\ cred' = cred
      ]_vars

\* The last call logged, and the step that logs a call.
LastCall(l) == l[Len(l)]
CallLogged == Len(log') = Len(log) + 1

\* The clients that fetch by id.
PerId == IdPath(kind) # ""

\* C13: on a client that fetches by id, delete(id) with an id sends the
\* delete request and touches nothing before it is answered; when the
\* request succeeds, id is not a key of the local collection, whether it
\* was one or not; a get(id) right after sends the fetch of that id, and when
\* that is answered with 404 the get raises ArgusObjectNotFoundException.
C13_DeleteThenGetFetches ==
    [][ /\ (pc = "idle" /\ PerId /\ op'.name = "delete" /\ op'.arg # None) =>
              /\ pc' = "call"
              /\ RequestOf(op') = Req("delete", IdPath(kind), op'.arg)
              /\ coll' = coll
        /\ (pc = "call" /\ PerId /\ op.name = "delete"
              /\ pc' = "idle" /\ ret'.exc = NoException) =>
              /\ LastCall(log').method = "delete"
              /\ LastCall(log').exc = NoException
              /\ op.arg \notin DOMAIN coll'
        /\ (pc = "idle" /\ PerId /\ op.name = "delete" /\ ret.exc = NoException
              /\ op'.name = "get" /\ op'.arg = op.arg) =>
              /\ pc' = "call"
              /\ RequestOf(op') = Req("get", IdPath(kind), op.arg)
        /\ (pc = "call" /\ PerId /\ op.name = "get" /\ CallLogged
              /\ LastCall(log').exc = ArgusObjectNotFoundException) =>
              /\ LastCall(log').method = "get"
              /\ LastCall(log').path = IdPath(kind)
              /\ pc' = "idle"
              /\ ret' = Raised(ArgusObjectNotFoundException)
              /\ op.arg \notin DOMAIN coll'
      ]_vars

\* A delete of an id that was not in the local collection has succeeded.
C13_Witness ==
    /\ pc = "idle"
    /\ kind = "alerts"
    /\ op.name = "delete"
    /\ ret.exc = NoException
    /\ ~changed
    /\ Len(log) = 1
    /\ coll # EmptyDict

\* The step in which a target call of the running request is answered with
\* success.
TargetSucceeded ==
    /\ pc = "call"
    /\ CallLogged
    /\ LastCall(log').kind = "target"
    /\ LastCall(log').exc = NoException

\* The calls that change something on the server.
Mutating ==
    {"add", "update", "update_users", "delete",
     "add_child_alert_to_composite_alert", "delete_child_alert_from_composite_alert"}

\* C14: while a mutating call runs, the local collection changes only in a
\* step in which a request of that call has just succeeded: no entry is put,
\* overwritten or removed before the server has answered.
C14_RemoteBeforeLocal ==
    [][ (op'.name \in Mutating /\ coll' # coll) => TargetSucceeded ]_vars

\* C15: a mutating call that ends by raising (a request of it has failed, or
\* a check after a request) leaves the local collection as it was when the
\* call started; so does AlertsServiceClient.add of an alert that carries a
\* trigger or a notification.
C15_RaiseLeavesCollection ==
    (pc = "idle" /\ op.name \in Mutating /\ ret.exc # NoException) => ~changed

----------------------------------------------------------------------------
(* Lookups after the bulk fetch (specification SpecColl). *)

\* A get(id) of an id that is not in the local collection starts, on a
\* client whose _retrieved_all is set.
AbsentGetStarts ==
    /\ pc = "idle"
    /\ retrieved_all
    /\ op'.name = "get"
    /\ op'.by = "id"
    /\ op'.arg \in Ids
    /\ op'.arg \notin DOMAIN coll

\* C16: with _retrieved_all set, get(id) of an absent id never sends the
\* bulk-fetch request: NamespacesServiceClient.get sends nothing and raises
\* at once, and a client that fetches by id sends the request of that id
\* and, whatever the answer, no other.
C16_AbsentGetNeverBulkFetches ==
    [][ /\ (AbsentGetStarts /\ ~PerId) =>
              /\ pc' = "idle"
              /\ log' = <<>>
              /\ ret'.exc \notin {NoException, "pending"}
        /\ (AbsentGetStarts /\ PerId) =>
              /\ pc' = "call"
              /\ RequestOf(op') = Req("get", IdPath(kind), op'.arg)
        /\ (retrieved_all /\ op.name = "get" /\ op.by = "id" /\ CallLogged) =>
              /\ PerId
              /\ LastCall(log').method = "get"
              /\ LastCall(log').path = IdPath(kind)
              /\ LastCall(log').path # BulkPath(kind)
      ]_vars

C16_Witness ==
    /\ pc = "idle"
    /\ kind = "namespaces"
    /\ retrieved_all
    /\ op.name = "get"
    /\ op.arg \notin DOMAIN coll
    /\ log = <<>>
    /\ ret.exc = KeyError

\* C17: NamespacesServiceClient.get of an id that is not in the local
\* collection, neither before nor after the one bulk fetch, raises
\* ArgusObjectNotFoundException.
C17_AbsentRaisesNotFound ==
    ( /\ pc = "idle"
      /\ kind = "namespaces"
      /\ op.name = "get"
      /\ op.arg \notin DOMAIN coll
      /\ retrieved_all )
    => ret.exc = ArgusObjectNotFoundException

----------------------------------------------------------------------------
(* The nested collections of an alert (specification SpecAlert). *)

\* The last call was an add on the alert's triggers (notifications), and it
\* returned the new object.
NestedAddedOk ==
    /\ pc = "idle"
    /\ kind \in NestedKinds
    /\ op.name = "add"
    /\ ret.exc = NoException

\* C18: after a successful alert.triggers.add (alert.notifications.add),
\* whatever the nested collection held before, the alert's triggerIds
\* (notificationIds) are the keys of the nested collection, and the new
\* object is in it, so that a get of its id sends nothing.
C18_NestedAddSyncsIds ==
    NestedAddedOk =>
        /\ owner_ids = DOMAIN coll
        /\ ret.val.id \in DOMAIN coll
        /\ coll[ret.val.id] = ret.val

\* C19: after every successful add, update or delete on the alert's triggers
\* (notifications), the alert's triggerIds (notificationIds) are the keys of
\* the nested collection.
C19_NestedIdsFollowKeys ==
    ( /\ pc = "idle"
      /\ kind \in NestedKinds
      /\ op.name \in {"add", "update", "delete"}
      /\ ret.exc = NoException )
    => owner_ids = DOMAIN coll

----------------------------------------------------------------------------
(* The alerts a caller gets (specification SpecColl). *)

\* alert.triggers and alert.notifications are the nested service clients.
HasClients(alert) ==
    /\ alert.triggers = ServiceClient
    /\ alert.notifications = ServiceClient

\* C20: every alert that get, add, update, values, items or
\* add_child_alert_to_composite_alert of AlertsServiceClient hands out has
\* the two nested service clients as its triggers and notifications, add of
\* an alert that carries a trigger or a notification included.
C20_AlertsExposeNestedClients ==
    (pc = "idle" /\ kind = "alerts" /\ ret.exc = NoException) =>
        /\ op.name \in {"get", "add", "update", "add_child_alert_to_composite_alert"}
              => HasClients(ret.val)
        /\ op.name = "values" => \A a \in ret.val : HasClients(a)
        /\ op.name = "items" => \A p \in ret.val : HasClients(p[2])

----------------------------------------------------------------------------
(* Updating (specification SpecColl). *)

\* The last call was an update, and it returned an object.
UpdatedOk ==
    /\ pc = "idle"
    /\ op.name = "update"
    /\ ret.exc = NoException

\* The update has stored what it returned under its id.
UpdateStored ==
    /\ op.arg \in DOMAIN coll
    /\ coll[op.arg].id = op.arg
    /\ ret = Returned(coll[op.arg])

\* C21 as stated: a successful update has sent exactly one put, has stored
\* the object it returns under id, and that is all.
C21_ExactlyOnePut ==
    UpdatedOk =>
        /\ Len(log) = 1
        /\ log[1].method = "put"
        /\ UpdateStored

\* C21 amended: a successful update has sent one put that the server served,
\* after at most one put that the server refused with 401 (with_retry sends
\* it again), and nothing else; it has stored the object it returns under
\* id, putting it there if id was not a key, and has left the other entries
\* alone; a get(id) right after returns that object and sends nothing.
C21_UpdateStoresAndReturns ==
    [][ /\ (pc = "call" /\ UpdatedOk') =>
              /\ Len(log') \in {1, 2}
              /\ \A i \in DOMAIN log' :
                    /\ log'[i].kind = "target"
                    /\ log'[i].method = "put"
                    /\ log'[i].exc = (IF i = Len(log') THEN NoException
                                      ELSE ArgusAuthException)
              /\ UpdateStored'
              /\ DOMAIN coll' = DOMAIN coll \cup {op.arg}
              /\ \A k \in DOMAIN coll \ {op.arg} : coll'[k] = coll[k]
        /\ (UpdatedOk /\ op'.name = "get" /\ op'.by = "id" /\ op'.arg = op.arg) =>
              /\ pc' = "idle"
              /\ log' = <<>>
              /\ ret' = ret
              /\ coll' = coll
      ]_vars

\* An update of an id that was not in the collection has succeeded at the
\* second attempt.
C21_Witness ==
    /\ UpdatedOk
    /\ kind = "dashboards"
    /\ Len(log) = 2
    /\ changed
    /\ DOMAIN coll = {op.arg}

----------------------------------------------------------------------------
(* Constructing a session (specification SpecNew). *)

\* The arguments name a user and an endpoint and at least one of password,
\* refreshToken and accessToken.
Complete(a) ==
    /\ a.user # ""
    /\ a.endpoint # ""
    /\ a.password # "" \/ a.refreshToken # None \/ a.accessToken # None

----------------------------------------------------------------------------
(* The classification of a response (specification SpecCheck). *)

\* check_success has been applied to the response in frame.obj.
Checked == op.name = "check_success" /\ pc = "idle"

\* The outcomes the classification names; exactly one of them is to hold.
AbsentResult == ret.exc = NoException /\ frame.obj.body.tag = "empty"
DecodedResult ==
    /\ ret.exc = NoException
    /\ frame.obj.body.tag # "empty"
    /\ ret.val = json(frame.obj.body)
Failure(exc) == ret.exc = exc

\* The outcome the classification prescribes for the response.
Prescribed ==
    LET resp == frame.obj IN
    IF resp.status_code = 200
    THEN IF resp.body.tag = "empty"
         THEN AbsentResult
         ELSE IF resp.body.tag = "status" /\ resp.body.text # 200
              THEN Failure(ArgusException)
              ELSE DecodedResult
    ELSE IF resp.status_code = 404
         THEN Failure(ArgusObjectNotFoundException)
         ELSE IF resp.status_code = 401
              THEN Failure(ArgusAuthException)
              ELSE Failure(ArgusException)

\* C23 as stated: every response has exactly one outcome: status 200 with an
\* empty body gives no result; status 200 with a body gives the decoded body,
\* unless that is a mapping whose "status" is not 200, which is the generic
\* failure; 404 is the not-found failure, 401 the authentication failure and
\* every other status the generic failure.
C23_ClassificationTotal ==
    Checked =>
        /\ Prescribed
        /\ ret.exc \in {NoException, ArgusException, ArgusAuthException,
                        ArgusObjectNotFoundException}

\* C23, what holds: the classification is as stated for every response whose
\* body, under status 200, is empty or a JSON document.
C23_DecodableClassified ==
    (Checked /\ ~(frame.obj.status_code = 200 /\ frame.obj.body.tag = "text")) =>
        /\ Prescribed
        /\ ret.exc \in {NoException, ArgusException, ArgusAuthException,
                        ArgusObjectNotFoundException}

\* Status 200 with a body that is no JSON document: ValueError.
C23_Undecodable ==
    /\ Checked
    /\ frame.obj.status_code = 200
    /\ frame.obj.body.tag = "text"
    /\ ret.exc = ValueError

----------------------------------------------------------------------------
(* add and _retrieved_all (specifications SpecColl and SpecAlert). *)

----------------------------------------------------------------------------
(* keys (specification SpecColl). *)

\* keys() has returned.
KeysReturned == pc = "idle" /\ op.name = "keys" /\ ret.exc = NoException

\* The (id, object) pairs of the collection d.
Pairs(d) == { <<k, d[k]>> : k \in DOMAIN d }

\* C25 as stated: keys() returns the ids of the collection, as it is after
\* the one bulk fetch, and not its (id, object) pairs.
C25_KeysAreIds ==
    KeysReturned =>
        /\ retrieved_all
        /\ IF coll = EmptyDict
           THEN ret.val = {}
           ELSE ret.val # Pairs(coll) /\ ret.val = DOMAIN coll

\* What the code does: keys() returns what items() returns.
C25_KeysAreItems == KeysReturned => (retrieved_all /\ ret.val = Pairs(coll))

\* keys() has returned the pairs of a collection that is not empty.
C25_KeysReturnedPairs == KeysReturned /\ coll # EmptyDict /\ ret.val = Pairs(coll)

----------------------------------------------------------------------------
(* An alert's nested collections (specification SpecAlert). *)

\* The nested client as its __init__ left it: no call has been made on it.
Constructed == op.name = "none"

\* The first call of an items, values or __len__ that found the flag unset
\* is being sent.
FirstFetch == op.name \in WholeAccess /\ pc = "call" /\ log = <<>>

\* C26: a nested client built on a non-empty embedded list holds that list
\* and counts as retrieved, one built on nothing (or on an empty list) is
\* empty and does not.  items, values and __len__ on a retrieved collection
\* return from it without any call; on one not retrieved they send the bulk
\* fetch, and once the server has served it the call returns, after that one
\* call, with the flag set; from then on no step sends the bulk fetch again.
C26_NestedFetchedOnce ==
    [][ /\ Constructed =>
             /\ retrieved_all <=> coll # EmptyDict
             /\ retrieved_all => DOMAIN coll = owner_ids
        /\ (pc = "idle" /\ op'.name \in WholeAccess) =>
             IF retrieved_all
             THEN /\ pc' = "idle"
                  /\ log' = <<>>
                  /\ ret' = Returned(View(op'.name, None, coll))
                  /\ coll' = coll
             ELSE pc' = "call" /\ log' = <<>>
        /\ FirstFetch =>
             /\ BulkFetchSent
             /\ log'[1].exc = NoException =>
                   /\ pc' = "idle"
                   /\ Len(log') = 1
                   /\ retrieved_all'
                   /\ ret' = Returned(View(op.name, None, coll'))
        /\ retrieved_all => (retrieved_all' /\ ~BulkFetchSent)
      ]_vars

\* items() on an alert's notifications, not embedded, has returned them after
\* one bulk fetch.
C26_Witness ==
    /\ kind = "notifications"
    /\ op.name = "items"
    /\ pc = "idle"
    /\ Len(log) = 1
    /\ log[1].path = BulkPath(kind)
    /\ ret.exc = NoException
    /\ retrieved_all
    /\ coll # EmptyDict

----------------------------------------------------------------------------
(* The order of refresh and login in one attempt (specification Spec). *)

\* The step sends a call of kind k.
Sent(k) == Len(log') = Len(log) + 1 /\ log'[Len(log')].kind = k

\* The step starts an attempt of with_retry: the first one of a _request, or
\* the second one after an ArgusAuthException.
AttemptStarts ==
    \/ pc \in {"idle", "request"} /\ pc' \in {"refresh", "login", "call"}
    \/ pc \in {"refresh", "login", "call"} /\ try_cnt' = try_cnt + 1

\* The step takes the attempt past the refresh of with_auth_token: there was
\* none to make, or it was served, or it was refused with 401 and there is a
\* password.
PastRefresh ==
    \/ AttemptStarts /\ pc' # "refresh"
    \/ pc = "refresh" /\ pc' \in {"login", "call"} /\ try_cnt' = try_cnt

\* C27: an attempt sends a refresh call iff, when it starts, there is no
\* accessToken and there is a refreshToken; it sends a login call iff, once it
\* is past the refresh, there is still no accessToken and there is a
\* password; a refresh call is never sent after the login call of the same
\* attempt; and no refresh or login call is sent while there is an accessToken.
C27_RefreshThenLogin ==
    [][ /\ AttemptStarts =>
             (pc' = "refresh" <=> (cred'.accessToken = None /\ cred'.refreshToken # None))
        /\ pc' = "refresh" => AttemptStarts
        /\ Sent("refresh") <=> pc = "refresh"
        /\ PastRefresh =>
             (pc' = "login" <=> (cred'.accessToken = None /\ cred'.password # ""))
        /\ pc' = "login" => PastRefresh
        /\ Sent("login") <=> pc = "login"
        /\ pc = "login" => pc' # "refresh"
        /\ (Sent("refresh") \/ Sent("login")) => cred.accessToken = None
      ]_vars

\* An attempt has sent a refused refresh, then a login, then the wrapped call.
C27_Witness ==
    /\ InRequest
    /\ pc = "idle"
    /\ start.accessToken = None /\ start.refreshToken # None /\ start.password # ""
    /\ KindsOf(log) = <<"refresh", "login", "target">>
    /\ log[1].exc = ArgusAuthException
    /\ ret.exc = NoException

----------------------------------------------------------------------------
(* Termination of _request (specification SpecLive). *)

\* C28: every _request ends, whatever the session holds and whatever the
\* server answers, and it sends at most two wrapped calls, two refresh calls
\* and two login calls, six calls in all.
C28_RequestTerminates ==
    /\ [](/\ Count("target") <= 2
          /\ Count("refresh") <= 2
          /\ Count("login") <= 2
          /\ Len(log) <= 6
          /\ try_cnt <= RetryLimit)
    /\ (pc # "idle") ~> (pc = "idle")

\* A request has ended after six calls, two of each kind.
C28_Witness ==
    /\ RequestEnded
    /\ Len(log) = 6
    /\ Count("target") = 2
    /\ Count("refresh") = 2
    /\ Count("login") = 2

----------------------------------------------------------------------------
(* A bulk fetch that fails (specifications SpecColl and SpecAlert). *)

\* The step sends the bulk fetch and the server does not serve it.
BulkFetchFails == pc = "call" /\ BulkFetchSent /\ log'[Len(log')].exc # NoException

\* The last call has ended with the failure of its bulk fetch.
BulkFetchFailed ==
    /\ pc = "idle"
    /\ log # <<>>
    /\ log[Len(log)].method = "get"
    /\ log[Len(log)].path = BulkPath(kind)
    /\ log[Len(log)].exc # NoException
    /\ ret.exc = log[Len(log)].exc

\* C29: a bulk fetch that fails, with 401, 404 or another failure, leaves
\* _retrieved_all False and the collection as it was; the call that sent it
\* raises the failure (after a second try on 401), and items, keys, values,
\* __iter__, __len__ or __contains__ called next serves nothing from the
\* collection but starts a request, whose first call is the bulk fetch again.
C29_FailedFetchLeavesCache ==
    [][ /\ BulkFetchFails =>
             /\ ~retrieved_all /\ ~retrieved_all'
             /\ coll' = coll
             /\ coll_by_name' = coll_by_name
             /\ pc' = "idle" => ret'.exc = log'[Len(log')].exc
             /\ pc' # "idle" => (log'[Len(log')].exc = ArgusAuthException /\ try_cnt' = 2)
        /\ (BulkFetchFailed /\ op'.name \in Accessors) =>
             /\ ~retrieved_all
             /\ pc' = "call"
             /\ log' = <<>>
             /\ coll' = coll
        /\ (op.name \in Accessors /\ pc = "call" /\ log = <<>>) => BulkFetchSent
      ]_vars

\* items() on dashboards that hold an added dashboard has failed on its bulk
\* fetch: the dashboard is still there, _retrieved_all is not set.
C29_Witness ==
    /\ kind = "dashboards"
    /\ op.name = "items"
    /\ BulkFetchFailed
    /\ ret.exc = ArgusException
    /\ ~retrieved_all
    /\ coll # EmptyDict

----------------------------------------------------------------------------
(* What the first bulk fetch leaves (specification SpecFetch). *)

\* The step in which the first bulk fetch of the collection is served.
FirstFetchServed == pc = "call" /\ ~retrieved_all /\ retrieved_all'

\* C30: the step that serves the first bulk fetch leaves exactly the ids of
\* the server's list in the collection, each with the object of the list
\* (as _fill returns it): an id held before is dropped when the list does not
\* have it, and holds the list's object when it has.
C30_FetchReplacesCache ==
    [][ FirstFetchServed =>
          LET res == frame.obj IN
          /\ DOMAIN coll' = IdsOf(res)
          /\ \A k \in DOMAIN coll' :
                \E i \in DOMAIN res : res[i].id = k /\ coll'[k] = _fill(kind, res[i])
          /\ \A k \in DOMAIN coll :
                IF k \in IdsOf(res)
                THEN \E i \in DOMAIN res : res[i].id = k /\ coll'[k] = _fill(kind, res[i])
                ELSE k \notin DOMAIN coll'
      ]_vars

\* The bulk fetch of dashboards has been served with one dashboard: the
\* collection, which held something else before, now holds exactly that one.
C30_Witness ==
    /\ kind = "dashboards"
    /\ pc = "idle"
    /\ op.name = "items"
    /\ retrieved_all
    /\ changed
    /\ Len(frame.obj) = 1
    /\ DOMAIN coll = {frame.obj[1].id}
    /\ coll[frame.obj[1].id] = frame.obj[1]

====
